---------------------------- MODULE Spec2Model ----------------------------
(***************************************************************************)
(* Model of the nutrition research analyzer:                               *)
(*   - extract_paper_sections (src/src/utils.py), the deterministic        *)
(*     section segmenter, as operators over character sequences;           *)
(*   - create_nutrition_crew (src/src/crew.py), the texts handed to the    *)
(*     tasks and the sequential task chain;                                *)
(*   - PaperAnalysis (src/src/models.py), the validation of the synthesis  *)
(*     payload;                                                            *)
(*   - the batch loop of src/app.py.                                       *)
(*                                                                         *)
(* A text is a sequence of characters, each character a one-element        *)
(* string.  The one character that is not written as itself is "U+0130"    *)
(* (LATIN CAPITAL LETTER I WITH DOT ABOVE), whose str.lower() is the two   *)
(* characters "i", "U+0307".                                               *)
(***************************************************************************)
EXTENDS Integers, Sequences, FiniteSets, TLC

VARIABLES
    text,          \* segmenter: the argument of extract_paper_sections
    seg,           \* segmenter: the returned dict, once it has returned
    papers,        \* app.py: papers = process_zip_file(uploaded_zip)
    idx,           \* app.py: number of loop iterations completed
    pc,            \* app.py: position inside the loop body
    task_texts,    \* crew.py: the section text placed in each task
    executing,     \* SpecCrew: the task being executed, or "none"
    completed,     \* SpecCrew: the tasks whose output is recorded, in order
    raw_payload,   \* SpecCrew: the payload the synthesis task produced
    crew_output,   \* the value crew.kickoff() returned
    results,       \* st.session_state.results
    errors,        \* filenames reported through st.error
    warnings,      \* messages reported through st.warning
    progress,      \* values passed to progress_bar.progress, as k of k/N
    history,       \* how crew.kickoff() ended for each paper so far
    files,         \* process_zip_file: the files os.walk yields, in its order
    visited,       \* process_zip_file: number of files the walk has passed
    text_content,  \* process_zip_file: the local text_content, None while unset
    report,        \* generate_docx_report: the heading written for each result
    display        \* app.py: what the dashboard loop has rendered

vars == << text, seg, papers, idx, pc, task_texts, executing, completed,
           raw_payload, crew_output, results, errors, warnings, progress,
           history, files, visited, text_content, report, display >>

zipVars == << files, visited, text_content >>

dashVars == << report, display >>

appVars == << papers, idx, pc, task_texts, executing, completed,
              raw_payload, crew_output, results, errors, warnings, progress,
              history, zipVars, dashVars >>

---------------------------------------------------------------------------
(* Bounds of the model *)

MaxChunks == 3      \* a text is the concatenation of at most MaxChunks chunks
MaxPapers == 3      \* a batch holds at most MaxPapers papers
MaxFiles == 3       \* an archive holds at most MaxFiles files

---------------------------------------------------------------------------
(* Optional values: Python's None against a str *)

None == [some |-> FALSE, val |-> <<>>]
Some(s) == [some |-> TRUE, val |-> s]

\* Python truthiness of an Optional[str]: None and "" are falsy
Truthy(o) == o.some /\ o.val # <<>>

---------------------------------------------------------------------------
(* Characters *)

UpperChars == <<"A", "B", "C", "D", "E", "F", "G", "H", "I", "J", "K", "L", "M",
                "N", "O", "P", "Q", "R", "S", "T", "U", "V", "W", "X", "Y", "Z">>
LowerChars == <<"a", "b", "c", "d", "e", "f", "g", "h", "i", "j", "k", "l", "m",
                "n", "o", "p", "q", "r", "s", "t", "u", "v", "w", "x", "y", "z">>

UpperSet == {UpperChars[i] : i \in 1..26}
LowerSet == {LowerChars[i] : i \in 1..26}

\* the characters re's \s matches, among those of the model
IsSpace(c) == c \in {" ", "\n", "\t"}

\* the characters re's \w matches, among those of the model
IsWord(c) == c \in UpperSet \cup LowerSet \cup {"_", "U+0130"}

\* str.lower() of one character; U+0130 lowers to two characters
LowerChar(c) ==
    IF c \in UpperSet
    THEN << LowerChars[CHOOSE i \in 1..26 : UpperChars[i] = c] >>
    ELSE IF c = "U+0130" THEN << "i", "U+0307" >>
    ELSE << c >>

\* str.lower()
StrLower(s) ==
    LET f[i \in 0..Len(s)] ==
            IF i = 0 THEN <<>> ELSE f[i - 1] \o LowerChar(s[i])
    IN  f[Len(s)]

\* s[a:b] for 0 <= a, 0 <= b (Python slices clamp to the length)
Slice(s, a, b) ==
    LET hi == IF b < Len(s) THEN b ELSE Len(s)
    IN  IF a + 1 > hi THEN <<>> ELSE SubSeq(s, a + 1, hi)

\* str.strip()
Strip(s) ==
    LET nonSpace == {i \in 1..Len(s) : ~IsSpace(s[i])}
    IN  IF nonSpace = {} THEN <<>>
        ELSE LET lo == CHOOSE i \in nonSpace : \A j \in nonSpace : i <= j
                 hi == CHOOSE i \in nonSpace : \A j \in nonSpace : i >= j
             IN  SubSeq(s, lo, hi)

\* re.sub(r'\s+', ' ', s): every run of whitespace becomes one space
ReSubSpaces(s) ==
    LET f[i \in 0..Len(s)] ==
            IF i = 0 THEN <<>>
            ELSE IF IsSpace(s[i])
                 THEN IF i > 1 /\ IsSpace(s[i - 1])
                      THEN f[i - 1]
                      ELSE Append(f[i - 1], " ")
                 ELSE Append(f[i - 1], s[i])
    IN  f[Len(s)]

---------------------------------------------------------------------------
(* extract_paper_sections *)

TitleChars == 500

\* the keys of CANONICAL_SECTIONS, in dict order
SectionNames ==
    << "abstract", "introduction", "methods", "results", "discussion",
       "conclusion", "funding", "conflicts_of_interest" >>

SectionKeys == {SectionNames[i] : i \in 1..Len(SectionNames)}

\* CANONICAL_SECTIONS[s]: the heading variants of a section, in list order
CANONICAL_SECTIONS(s) ==
    CASE s = "abstract" ->
        << <<"a", "b", "s", "t", "r", "a", "c", "t">> >>
    [] s = "introduction" ->
        << <<"i", "n", "t", "r", "o", "d", "u", "c", "t", "i", "o", "n">>,
           <<"b", "a", "c", "k", "g", "r", "o", "u", "n", "d">> >>
    [] s = "methods" ->
        << <<"m", "e", "t", "h", "o", "d", "s">>,
           <<"m", "a", "t", "e", "r", "i", "a", "l", "s", " ", "a", "n", "d", " ",
             "m", "e", "t", "h", "o", "d", "s">>,
           <<"m", "e", "t", "h", "o", "d", "o", "l", "o", "g", "y">> >>
    [] s = "results" ->
        << <<"r", "e", "s", "u", "l", "t", "s">>,
           <<"f", "i", "n", "d", "i", "n", "g", "s">> >>
    [] s = "discussion" ->
        << <<"d", "i", "s", "c", "u", "s", "s", "i", "o", "n">> >>
    [] s = "conclusion" ->
        << <<"c", "o", "n", "c", "l", "u", "s", "i", "o", "n">>,
           <<"c", "o", "n", "c", "l", "u", "s", "i", "o", "n", "s">> >>
    [] s = "funding" ->
        << <<"f", "u", "n", "d", "i", "n", "g">>,
           <<"f", "u", "n", "d", "i", "n", "g", " ", "s", "t", "a", "t", "e", "m",
             "e", "n", "t">>,
           <<"s", "o", "u", "r", "c", "e", "s", " ", "o", "f", " ", "f", "u", "n",
             "d", "i", "n", "g">> >>
    [] s = "conflicts_of_interest" ->
        << <<"c", "o", "n", "f", "l", "i", "c", "t", "s", " ", "o", "f", " ", "i",
             "n", "t", "e", "r", "e", "s", "t">>,
           <<"c", "o", "n", "f", "l", "i", "c", "t", " ", "o", "f", " ", "i", "n",
             "t", "e", "r", "e", "s", "t">>,
           <<"c", "o", "m", "p", "e", "t", "i", "n", "g", " ", "i", "n", "t", "e",
             "r", "e", "s", "t", "s">>,
           <<"d", "i", "s", "c", "l", "o", "s", "u", "r", "e">> >>

\* PatternMatchesAt with the two \b dropped: a plain substring search
PatternMatchesAt_NoBoundary(v, lowered, off) ==
    /\ off + Len(v) <= Len(lowered)
    /\ \A k \in 1..Len(v) : lowered[off + k] = v[k]

\* rf'\b{re.escape(v)}\b' matches in lowered at 0-based offset off.  Every
\* variant begins and ends with a word character, so each \b asks for the edge
\* of the text or a non-word character on the other side.
PatternMatchesAt(v, lowered, off) ==
    /\ off + Len(v) <= Len(lowered)
    /\ \A k \in 1..Len(v) : lowered[off + k] = v[k]
    /\ off = 0 \/ ~IsWord(lowered[off])
    /\ off + Len(v) = Len(lowered) \/ ~IsWord(lowered[off + Len(v) + 1])

\* [m.start() for m in re.finditer(pattern, lowered)], ascending.  No variant
\* has a proper prefix that is also its suffix, so two matches of one pattern
\* never overlap and finditer reports every matching offset.
FindIter(v, lowered) ==
    LET f[off \in -1..Len(lowered)] ==
            IF off = -1 THEN <<>>
            ELSE IF PatternMatchesAt(v, lowered, off)
                 THEN Append(f[off - 1], off)
                 ELSE f[off - 1]
    IN  f[Len(lowered)]

\* the (m.start(), section) pairs one variant appends
VariantHeadings(section, v, lowered) ==
    LET offs == FindIter(v, lowered)
    IN  [i \in 1..Len(offs) |-> [start |-> offs[i], section |-> section]]

\* the pairs all the variants of one section append, in list order
SectionHeadings(section, lowered) ==
    LET vs == CANONICAL_SECTIONS(section)
        f[j \in 0..Len(vs)] ==
            IF j = 0 THEN <<>>
            ELSE f[j - 1] \o VariantHeadings(section, vs[j], lowered)
    IN  f[Len(vs)]

\* heading_positions before the sort: sections in dict order
FindHeadings(lowered) ==
    LET f[i \in 0..Len(SectionNames)] ==
            IF i = 0 THEN <<>>
            ELSE f[i - 1] \o SectionHeadings(SectionNames[i], lowered)
    IN  f[Len(SectionNames)]

\* heading_positions.sort(key=lambda x: x[0]): list.sort is stable, so pairs of
\* equal offset keep the order in which they were appended
SortByStart(hp) ==
    LET Insert(sorted, e) ==
            LET n == Cardinality({k \in 1..Len(sorted) : sorted[k].start <= e.start})
            IN  SubSeq(sorted, 1, n) \o << e >> \o SubSeq(sorted, n + 1, Len(sorted))
        f[i \in 0..Len(hp)] ==
            IF i = 0 THEN <<>> ELSE Insert(f[i - 1], hp[i])
    IN  f[Len(hp)]

\* sections = {k: None for k in CANONICAL_SECTIONS.keys()}; sections["title"] = ...
InitialSections(title_snippet) ==
    [k \in SectionKeys \cup {"title"} |->
        IF k = "title" THEN title_snippet ELSE None]

\* KeepFirst without the "is None" test: the last occurrence wins
KeepFirst_LastWins(sections, section_name, section_text) ==
    [sections EXCEPT ![section_name] = Some(section_text)]

\* if sections[section_name] is None: sections[section_name] = section_text
KeepFirst(sections, section_name, section_text) ==
    IF sections[section_name] = None
    THEN [sections EXCEPT ![section_name] = Some(section_text)]
    ELSE sections

\* the text of the i-th heading: from its offset to the next heading's offset
SectionText(normalized, hp, i) ==
    LET start_idx == hp[i].start
        end_idx == IF i + 1 <= Len(hp) THEN hp[i + 1].start ELSE Len(normalized)
    IN  Strip(Slice(normalized, start_idx, end_idx))

\* title_snippet = text[:500].strip() if text else None
TitleSnippet(txt) ==
    IF txt # <<>> THEN Some(Strip(Slice(txt, 0, TitleChars))) ELSE None

extract_paper_sections(txt) ==
    LET normalized == ReSubSpaces(txt)
        lowered == StrLower(normalized)
        heading_positions == SortByStart(FindHeadings(lowered))
        f[i \in 0..Len(heading_positions)] ==
            IF i = 0 THEN InitialSections(TitleSnippet(txt))
            ELSE KeepFirst(f[i - 1], heading_positions[i].section,
                           SectionText(normalized, heading_positions, i))
    IN  f[Len(heading_positions)]

---------------------------------------------------------------------------
(* PaperAnalysis: the schema the synthesis payload is validated against *)

\* a JSON value: null, an integer, a float (n counts tenths), a string, a bool
Null == [t |-> "null", n |-> 0, s |-> ""]
IntV(i) == [t |-> "int", n |-> i, s |-> ""]
FloatV(tenths) == [t |-> "float", n |-> tenths, s |-> ""]
StrV(str) == [t |-> "str", n |-> 0, s |-> str]
BoolV(b) == [t |-> "bool", n |-> IF b THEN 1 ELSE 0, s |-> ""]

Invalid == [ok |-> FALSE, val |-> Null]
Valid(v) == [ok |-> TRUE, val |-> v]

\* the fields of PaperAnalysis in declaration order, with their annotations
PaperAnalysisFields ==
    << [name |-> "filename", type |-> "str"],
       [name |-> "title", type |-> "str"],
       [name |-> "paper_type", type |-> "str"],
       [name |-> "evidence_level", type |-> "str"],
       [name |-> "has_conflict_of_interest", type |-> "bool"],
       [name |-> "funding_source", type |-> "str"],
       [name |-> "coi_notes", type |-> "str"],
       [name |-> "control_group_quality", type |-> "str"],
       [name |-> "intervention_details", type |-> "str"],
       [name |-> "confounding_factors", type |-> "str"],
       [name |-> "primary_outcome", type |-> "str"],
       [name |-> "risk_type_reported", type |-> "str"],
       [name |-> "endpoints", type |-> "str"],
       [name |-> "statistical_significance", type |-> "str"],
       [name |-> "conclusion_summary", type |-> "str"],
       [name |-> "trust_score", type |-> "int"],
       [name |-> "final_verdict", type |-> "str"] >>

FieldNames == {PaperAnalysisFields[i].name : i \in 1..Len(PaperAnalysisFields)}

FieldType ==
    [f \in FieldNames |->
        LET i == CHOOSE j \in 1..Len(PaperAnalysisFields) : PaperAnalysisFields[j].name = f
        IN  PaperAnalysisFields[i].type]

\* trust_score: Field(None, ge=1, le=10)
TrustScoreGe == 1
TrustScoreLe == 10

\* decimal numerals, for the strings the int validator parses
Numerals == << "0", "1", "2", "3", "4", "5", "6", "7", "8", "9", "10", "11" >>
IsNumeral(str) == \E i \in 1..Len(Numerals) : Numerals[i] = str
ParseInt(str) == (CHOOSE i \in 1..Len(Numerals) : Numerals[i] = str) - 1

\* Optional[str]: None, or a str; no other type is converted to str
ValidateStr(v) ==
    IF v.t \in {"null", "str"} THEN Valid(v) ELSE Invalid

\* Optional[bool]: None, a bool, or (the schema sets no strict mode) one of
\* the strings and numbers that stand for a bool
ValidateBool(v) ==
    CASE v.t \in {"null", "bool"} -> Valid(v)
      [] v.t = "int" -> IF v.n \in {0, 1} THEN Valid(BoolV(v.n = 1)) ELSE Invalid
      [] v.t = "float" -> IF v.n \in {0, 10} THEN Valid(BoolV(v.n = 10)) ELSE Invalid
      [] v.t = "str" ->
            IF v.s \in {"true", "t", "yes", "y", "on", "1"} THEN Valid(BoolV(TRUE))
            ELSE IF v.s \in {"false", "f", "no", "n", "off", "0"} THEN Valid(BoolV(FALSE))
            ELSE Invalid

\* the ge / le constraints of trust_score, on an int
InRange(i) ==
    IF TrustScoreGe <= i /\ i <= TrustScoreLe THEN Valid(IntV(i)) ELSE Invalid

\* Optional[int] with ge=1, le=10: None; an int in range; and, the schema
\* setting no strict mode, a float with no fractional part or a string that
\* is a numeral, converted to that int and then held to the range
ValidateTrustScore(v) ==
    CASE v.t = "null" -> Valid(v)
      [] v.t = "int" -> InRange(v.n)
      [] v.t = "float" -> IF v.n % 10 = 0 THEN InRange(v.n \div 10) ELSE Invalid
      [] v.t = "str" -> IF IsNumeral(v.s) THEN InRange(ParseInt(v.s)) ELSE Invalid

ValidateField(f, v) ==
    CASE FieldType[f] = "str" -> ValidateStr(v)
      [] FieldType[f] = "bool" -> ValidateBool(v)
      [] FieldType[f] = "int" -> ValidateTrustScore(v)

AllNull == [f \in FieldNames |-> Null]

\* PaperAnalysis(**payload): every field is declared Field(None, ...), so a
\* field the payload does not hold takes the default None
PaperAnalysis(payload) ==
    LET r == [f \in FieldNames |->
                IF f \in DOMAIN payload THEN ValidateField(f, payload[f])
                ELSE Valid(Null)]
    IN  IF \A f \in FieldNames : r[f].ok
        THEN [ok |-> TRUE, rec |-> [f \in FieldNames |-> r[f].val]]
        ELSE [ok |-> FALSE, rec |-> AllNull]

---------------------------------------------------------------------------
(* create_nutrition_crew *)

METHODS_NOT_REPORTED ==
    <<"M", "E", "T", "H", "O", "D", "S", " ", "N", "O", "T", " ", "R", "E", "P",
      "O", "R", "T", "E", "D">>
TITLE_NOT_FOUND ==
    <<"T", "I", "T", "L", "E", " ", "N", "O", "T", " ", "F", "O", "U", "N", "D">>

\* "\n\n".join(filter(None, parts)): None and "" are dropped
JoinTruthy(parts) ==
    LET kept == SelectSeq(parts, Truthy)
        f[i \in 0..Len(kept)] ==
            IF i = 0 THEN <<>>
            ELSE IF i = 1 THEN kept[1].val
            ELSE f[i - 1] \o << "\n", "\n" >> \o kept[i].val
    IN  f[Len(kept)]

\* x or default
OrDefault(o, default) == IF Truthy(o) THEN o.val ELSE default

triage_text(paper_sections) ==
    JoinTruthy(<< paper_sections["abstract"], paper_sections["funding"],
                  paper_sections["conflicts_of_interest"] >>)

methods_text(paper_sections) ==
    OrDefault(paper_sections["methods"], METHODS_NOT_REPORTED)

stats_text(paper_sections) ==
    JoinTruthy(<< paper_sections["methods"], paper_sections["results"] >>)

title_text(paper_sections) ==
    OrDefault(paper_sections["title"], TITLE_NOT_FOUND)

\* the section text in the description of each task that is given one
TaskTexts(paper_sections) ==
    [title |-> title_text(paper_sections),
     triage |-> triage_text(paper_sections),
     methodology |-> methods_text(paper_sections),
     stats |-> stats_text(paper_sections)]

NoTexts == [title |-> <<>>, triage |-> <<>>, methodology |-> <<>>, stats |-> <<>>]

\* CrewTasks with the statistics task listed before the methodology task
CrewTasks_StatsFirst == << "title", "triage", "stats", "methodology", "synthesis" >>

\* Crew(tasks=[...], process=Process.sequential): the order of execution
CrewTasks == << "title", "triage", "methodology", "stats", "synthesis" >>

\* Task(context=[...]): the tasks whose output a task is given
TaskContext(task) ==
    CASE task = "title" -> {}
      [] task = "triage" -> {}
      [] task = "methodology" -> {"triage"}
      [] task = "stats" -> {"methodology"}
      [] task = "synthesis" -> {"title", "triage", "methodology", "stats"}

---------------------------------------------------------------------------
(* The synthesis payloads of the model and what crew.kickoff() returns *)

BasePayload == [f \in FieldNames |-> IF f = "title" THEN StrV("T") ELSE Null]

TrustValues ==
    { Null, IntV(0), IntV(1), IntV(5), IntV(10), IntV(11),
      StrV("high"), StrV("10"), FloatV(100), FloatV(105) }

Without(payload, f) == [g \in (DOMAIN payload) \ {f} |-> payload[g]]

Payloads ==
    {[BasePayload EXCEPT !["trust_score"] = v] : v \in TrustValues}
    \cup {Without([BasePayload EXCEPT !["trust_score"] = IntV(10)], "final_verdict"),
          Without(BasePayload, "trust_score")}
    \cup {[BasePayload EXCEPT !["trust_score"] = IntV(10), !["title"] = Null],
          [BasePayload EXCEPT !["trust_score"] = IntV(10), !["title"] = StrV(" "),
                              !["filename"] = StrV("p q.pdf")]}

NoPayload == [none |-> Null]
NoOutput == [pydantic |-> [some |-> FALSE, rec |-> AllNull], has_raw |-> FALSE,
             returned |-> FALSE]

\* the object kickoff returns for a synthesis payload: output_pydantic is
\* PaperAnalysis, so .pydantic is the validated model, or None when the
\* payload does not validate; has_raw says whether the object has .raw
CrewOutput(payload, has_raw) ==
    LET v == PaperAnalysis(payload)
    IN  [pydantic |-> [some |-> v.ok, rec |-> v.rec], has_raw |-> has_raw,
         returned |-> TRUE]

\* an output that carries a validated model is a CrewOutput, which has .raw;
\* one that carries none may be a CrewOutput or an object without .raw (the
\* case the last branch of the loop body is written for)
Shapes(payload) == IF PaperAnalysis(payload).ok THEN {TRUE} ELSE BOOLEAN

\* every value kickoff can return
KickoffOutputs ==
    UNION { {CrewOutput(payload, has_raw) : has_raw \in Shapes(payload)} :
            payload \in Payloads }

---------------------------------------------------------------------------
(* Input texts: concatenations of at most MaxChunks chunks *)

Chunks ==
    << <<"A", "b", "s", "t", "r", "a", "c", "t", ":", " ", "a", " ">>,
       <<"M", "E", "T", "H", "O", "D", "S", " ", "b", "\n">>,
       <<"R", "e", "s", "u", "l", "t", "s", ":", " ", "c">>,
       <<"f", "i", "n", "d", "i", "n", "g", "s">>,
       <<"x">>,
       <<" ", "\n">>,
       <<"F", "u", "n", "d", "i", "n", "g", " ", "s", "t", "a", "t", "e", "m", "e",
         "n", "t", ".">>,
       <<"U+0130">>,
       <<"s", "o", "u", "r", "c", "e", "s", " ", "o", "f", " ", "f", "u", "n", "d",
         "i", "n", "g", " ">>,
       <<"M", "a", "t", "e", "r", "i", "a", "l", "s", " ", "a", "n", "d", " ", "M",
         "e", "t", "h", "o", "d", "s">>,
       <<"U+0130", " ", "A", "b", "s", "t", "r", "a", "c", "t", ":", " ", "a",
         " ">> >>

Concat(cs) ==
    LET f[i \in 0..Len(cs)] ==
            IF i = 0 THEN <<>> ELSE f[i - 1] \o Chunks[cs[i]]
    IN  f[Len(cs)]

Texts ==
    {Concat(cs) : cs \in UNION {[1..n -> 1..Len(Chunks)] : n \in 0..MaxChunks}}

---------------------------------------------------------------------------
(* The segmenter on its own *)

NotCalled == [k \in {"none"} |-> None]

\* process_zip_file and the dashboard have not run
ZipIdle ==
    /\ files = <<>>
    /\ visited = 0
    /\ text_content = None

NoDisplay == [shown |-> <<>>, raised |-> FALSE]

DashIdle ==
    /\ report = <<>>
    /\ display = NoDisplay

SegInit ==
    /\ text \in Texts
    /\ seg = NotCalled
    /\ papers = <<>>
    /\ idx = 0
    /\ pc = "idle"
    /\ task_texts = NoTexts
    /\ executing = "none"
    /\ completed = <<>>
    /\ raw_payload = NoPayload
    /\ crew_output = NoOutput
    /\ results = <<>>
    /\ errors = <<>>
    /\ warnings = <<>>
    /\ progress = <<>>
    /\ history = <<>>
    /\ ZipIdle
    /\ DashIdle

CallExtract ==
    /\ seg = NotCalled
    /\ seg' = extract_paper_sections(text)
    /\ UNCHANGED << text, appVars >>

SegNext == CallExtract

SpecSeg == SegInit /\ [][SegNext]_vars

---------------------------------------------------------------------------
(* One paper through the crew, task by task *)

CrewInit ==
    /\ text \in Texts
    /\ seg = extract_paper_sections(text)
    /\ papers = <<>>
    /\ idx = 0
    /\ pc = "create"
    /\ task_texts = NoTexts
    /\ executing = "none"
    /\ completed = <<>>
    /\ raw_payload = NoPayload
    /\ crew_output = NoOutput
    /\ results = <<>>
    /\ errors = <<>>
    /\ warnings = <<>>
    /\ progress = <<>>
    /\ history = <<>>
    /\ ZipIdle
    /\ DashIdle

crewRest == << text, seg, papers, idx, results, errors, warnings, progress, history,
              zipVars, dashVars >>

\* crew = create_nutrition_crew(sections, model_name, base_url)
CreateCrew ==
    /\ pc = "create"
    /\ task_texts' = TaskTexts(seg)
    /\ pc' = "kickoff"
    /\ UNCHANGED << executing, completed, raw_payload, crew_output, crewRest >>

\* the sequential process takes the next task of the list once the one before
\* it has finished
StartTask ==
    /\ pc = "kickoff"
    /\ executing = "none"
    /\ Len(completed) < Len(CrewTasks)
    /\ executing' = CrewTasks[Len(completed) + 1]
    /\ UNCHANGED << pc, task_texts, completed, raw_payload, crew_output, crewRest >>

\* a free-text task returns and its output is recorded
FinishTask ==
    /\ pc = "kickoff"
    /\ executing \notin {"none", "synthesis"}
    /\ completed' = Append(completed, executing)
    /\ executing' = "none"
    /\ UNCHANGED << pc, task_texts, raw_payload, crew_output, crewRest >>

\* the synthesis task returns; kickoff returns the crew's output
FinishSynthesis ==
    /\ pc = "kickoff"
    /\ executing = "synthesis"
    /\ \E payload \in Payloads : \E has_raw \in Shapes(payload) :
          /\ raw_payload' = payload
          /\ crew_output' = CrewOutput(payload, has_raw)
    /\ completed' = Append(completed, executing)
    /\ executing' = "none"
    /\ pc' = "returned"
    /\ UNCHANGED << task_texts, crewRest >>

\* the call of the language model fails inside a task: kickoff raises
TaskRaises ==
    /\ pc = "kickoff"
    /\ executing # "none"
    /\ executing' = "none"
    /\ pc' = "raised"
    /\ UNCHANGED << task_texts, completed, raw_payload, crew_output, crewRest >>

CrewNext ==
    \/ CreateCrew
    \/ StartTask
    \/ FinishTask
    \/ FinishSynthesis
    \/ TaskRaises

SpecCrew == CrewInit /\ [][CrewNext]_vars

---------------------------------------------------------------------------
(* The report and the dashboard *)

\* the characters of the str values the records and the batch hold
Chars(str) ==
    CASE str = "" -> <<>>
      [] str = " " -> <<" ">>
      [] str = "T" -> <<"T">>
      [] str = "p q.pdf" -> <<"p", " ", "q", ".", "p", "d", "f">>
      [] str = "a.pdf" -> <<"a", ".", "p", "d", "f">>
      [] str = "b.pdf" -> <<"b", ".", "p", "d", "f">>
      [] str = "c.pdf" -> <<"c", ".", "p", "d", "f">>
      [] str = "d.pdf" -> <<"d", ".", "p", "d", "f">>
      [] str = "e.pdf" -> <<"e", ".", "p", "d", "f">>
      [] str = "f.pdf" -> <<"f", ".", "p", "d", "f">>

IsCased(c) == c \in UpperSet \cup LowerSet

UpperChar(c) ==
    IF c \in LowerSet THEN UpperChars[CHOOSE i \in 1..26 : LowerChars[i] = c] ELSE c

\* str.title(): a cased character is upper-cased after an uncased one (or at
\* the start) and lower-cased after a cased one
StrTitle(s) ==
    [i \in 1..Len(s) |->
        IF IsCased(s[i])
        THEN IF i = 1 \/ ~IsCased(s[i - 1]) THEN UpperChar(s[i]) ELSE LowerChar(s[i])[1]
        ELSE s[i]]

\* str.replace(old, ''): every occurrence of old, left to right, is removed
StrReplace(s, old) ==
    LET f[i \in 1..(Len(s) + 1)] ==
            IF i > Len(s) THEN <<>>
            ELSE IF i + Len(old) - 1 <= Len(s) /\ SubSeq(s, i, i + Len(old) - 1) = old
                 THEN f[i + Len(old)]
                 ELSE <<s[i]>> \o f[i + 1]
    IN  f[1]

UntitledAnalysis ==
    <<"U", "n", "t", "i", "t", "l", "e", "d", " ", "A", "n", "a", "l", "y", "s", "i", "s">>

\* hasattr(res, name) and res.name: the attribute is there and truthy.  An
\* element appended by the last branch of the loop body is not a PaperAnalysis
\* and has no such attribute.
TruthyStr(res, name) ==
    /\ res.type = "PaperAnalysis"
    /\ res.rec[name].t = "str"
    /\ Chars(res.rec[name].s) # <<>>

get_filename_fallback(res) ==
    IF TruthyStr(res, "filename")
    THEN StrTitle(StrReplace(Chars(res.rec["filename"].s), <<".", "p", "d", "f">>))
    ELSE UntitledAnalysis

HeadingChars == 100

\* the level-1 heading generate_docx_report writes for each result: the title
\* cut to 100 characters, or f"Paper {i+1} ({get_filename_fallback(res)})"
generate_docx_report(rs) ==
    [i \in 1..Len(rs) |->
        IF TruthyStr(rs[i], "title") /\ Strip(Chars(rs[i].rec["title"].s)) # <<>>
        THEN [kind |-> "title", no |-> 0,
              name |-> Slice(Chars(rs[i].rec["title"].s), 0, HeadingChars)]
        ELSE [kind |-> "paper", no |-> i, name |-> get_filename_fallback(rs[i])]]

ScoreGreen == 8
ScoreOrange == 5

\* "green" if res.trust_score >= 8 else "orange" if res.trust_score >= 5 else "red"
score_color(n) ==
    IF n >= ScoreGreen THEN "green" ELSE IF n >= ScoreOrange THEN "orange" ELSE "red"

\* res.trust_score >= 8 raises: AttributeError on an element that is not a
\* PaperAnalysis, TypeError when trust_score is None
CardRaises(res) ==
    \/ res.type # "PaperAnalysis"
    \/ res.rec["trust_score"].t = "null"

\* for res in st.session_state.results: the cards rendered before the first
\* element that raises, and whether one raised
DashboardLoop(rs) ==
    LET bad == {i \in 1..Len(rs) : CardRaises(rs[i])}
        n == IF bad = {} THEN Len(rs)
             ELSE (CHOOSE i \in bad : \A j \in bad : i <= j) - 1
    IN  [shown |-> [i \in 1..n |->
                       [title |-> rs[i].rec["title"],
                        trust_score |-> rs[i].rec["trust_score"].n,
                        score_color |-> score_color(rs[i].rec["trust_score"].n)]],
         raised |-> bad # {}]

---------------------------------------------------------------------------
(* The batch loop of app.py *)

FileNames == << "a.pdf", "b.pdf", "c.pdf", "d.pdf", "e.pdf", "f.pdf" >>

\* the texts of the papers of a batch: a text with no heading, and a text
\* with abstract, methods and results
PaperTexts == { Concat(<< 5 >>), Concat(<< 1, 2, 3 >>) }

Batches ==
    UNION { { [i \in 1..n |-> [filename |-> FileNames[i],
                               sections |-> extract_paper_sections(ts[i])]] :
              ts \in [1..n -> PaperTexts] } :
            n \in 0..MaxPapers }

\* st.session_state.results = []; papers = process_zip_file(uploaded_zip);
\* progress_bar = st.progress(0)
Init ==
    /\ text = <<>>
    /\ seg = NotCalled
    /\ papers \in Batches
    /\ idx = 0
    /\ pc = "loop"
    /\ task_texts = NoTexts
    /\ executing = "none"
    /\ completed = <<>>
    /\ raw_payload = NoPayload
    /\ crew_output = NoOutput
    /\ results = <<>>
    /\ errors = <<>>
    /\ warnings = <<>>
    /\ progress = <<>>
    /\ history = <<>>
    /\ ZipIdle
    /\ DashIdle

paper == papers[idx + 1]

\* BeginPaper with the advisory ending the iteration: a paper without a
\* methods section is reported and left out
BeginPaper_SkipsWithoutMethods ==
    /\ pc = "loop"
    /\ idx < Len(papers)
    /\ IF paper.sections["methods"] = None
       THEN /\ warnings' = Append(warnings, [kind |-> "methods_missing",
                                             filename |-> paper.filename])
            /\ progress' = Append(progress, idx + 1)
            /\ idx' = idx + 1
            /\ UNCHANGED << pc, task_texts >>
       ELSE /\ task_texts' = TaskTexts(paper.sections)
            /\ pc' = "kickoff"
            /\ UNCHANGED << warnings, progress, idx >>
    /\ UNCHANGED << zipVars, dashVars, text, seg, papers, executing, completed, raw_payload,
                    crew_output, results, errors, history >>

\* st.info; the advisory when sections["methods"] is None; create_nutrition_crew
BeginPaper ==
    /\ pc = "loop"
    /\ idx < Len(papers)
    /\ warnings' =
          IF paper.sections["methods"] = None
          THEN Append(warnings, [kind |-> "methods_missing", filename |-> paper.filename])
          ELSE warnings
    /\ task_texts' = TaskTexts(paper.sections)
    /\ pc' = "kickoff"
    /\ UNCHANGED << zipVars, dashVars, text, seg, papers, idx, executing, completed, raw_payload,
                    crew_output, results, errors, progress, history >>

\* KickoffRaises with the handler ending the loop instead of going on
KickoffRaises_Aborts ==
    /\ pc = "kickoff"
    /\ errors' = Append(errors, paper.filename)
    /\ history' = Append(history, [raised |-> TRUE, ok |-> FALSE, rec |-> AllNull])
    /\ idx' = idx + 1
    /\ pc' = "done"
    /\ UNCHANGED << zipVars, dashVars, text, seg, papers, task_texts, executing, completed,
                    raw_payload, crew_output, results, warnings, progress >>

\* crew.kickoff() raises: except Exception as e: st.error(...); then
\* progress_bar.progress((idx + 1) / len(papers))
KickoffRaises ==
    /\ pc = "kickoff"
    /\ errors' = Append(errors, paper.filename)
    /\ progress' = Append(progress, idx + 1)
    /\ history' = Append(history, [raised |-> TRUE, ok |-> FALSE, rec |-> AllNull])
    /\ idx' = idx + 1
    /\ pc' = "loop"
    /\ UNCHANGED << zipVars, dashVars, text, seg, papers, task_texts, executing, completed,
                    raw_payload, crew_output, results, warnings >>

\* crew.kickoff() returns; the three branches on the shape of crew_output
KickoffReturns ==
    /\ pc = "kickoff"
    /\ \E out \in KickoffOutputs :
              /\ crew_output' = out
              /\ history' = Append(history, [raised |-> FALSE, ok |-> out.pydantic.some,
                                             rec |-> out.pydantic.rec])
              /\ \/ \* analysis_result = crew_output.pydantic; append; progress
                    /\ out.pydantic.some
                    /\ results' = Append(results, [type |-> "PaperAnalysis",
                                                   rec |-> out.pydantic.rec])
                    /\ progress' = Append(progress, idx + 1)
                    /\ UNCHANGED warnings
                 \/ \* elif hasattr(crew_output, 'raw'): st.warning(...); continue
                    /\ ~out.pydantic.some
                    /\ out.has_raw
                    /\ warnings' = Append(warnings, [kind |-> "structured_failed",
                                                     filename |-> paper.filename])
                    /\ UNCHANGED << results, progress >>
                 \/ \* else: analysis_result = crew_output; append; progress
                    /\ ~out.pydantic.some
                    /\ ~out.has_raw
                    /\ results' = Append(results, [type |-> "CrewOutput", rec |-> AllNull])
                    /\ progress' = Append(progress, idx + 1)
                    /\ UNCHANGED warnings
    /\ idx' = idx + 1
    /\ pc' = "loop"
    /\ UNCHANGED << zipVars, dashVars, text, seg, papers, task_texts, executing, completed,
                    raw_payload, errors >>

\* the for loop has no paper left
LoopExit ==
    /\ pc = "loop"
    /\ idx = Len(papers)
    /\ pc' = "done"
    /\ UNCHANGED << zipVars, dashVars, text, seg, papers, idx, task_texts, executing, completed,
                    raw_payload, crew_output, results, errors, warnings, progress,
                    history >>

\* if st.session_state.results: generate_docx_report(...); the loop that
\* renders one card per result
Dashboard ==
    /\ pc = "done"
    /\ pc' = "shown"
    /\ IF results = <<>>
       THEN UNCHANGED dashVars
       ELSE /\ report' = generate_docx_report(results)
            /\ display' = DashboardLoop(results)
    /\ UNCHANGED << zipVars, text, seg, papers, idx, task_texts, executing, completed,
                    raw_payload, crew_output, results, errors, warnings, progress,
                    history >>

Next ==
    \/ BeginPaper
    \/ KickoffRaises
    \/ KickoffReturns
    \/ LoopExit
    \/ Dashboard

Spec == Init /\ [][Next]_vars

---------------------------------------------------------------------------
(* process_zip_file: the walk over the extracted files *)

StartsWith(s, prefix) ==
    /\ Len(prefix) <= Len(s)
    /\ SubSeq(s, 1, Len(prefix)) = prefix

EndsWith(s, suffix) ==
    /\ Len(suffix) <= Len(s)
    /\ SubSeq(s, Len(s) - Len(suffix) + 1, Len(s)) = suffix

\* file.lower().endswith(".pdf")
IsPdfName(name) == EndsWith(StrLower(name), <<".", "p", "d", "f">>)

\* file.startswith("._")
IsHiddenName(name) == StartsWith(name, <<".", "_">>)

\* the names of the files of an archive: a PDF, the hidden companion file a
\* macOS archive holds beside it, a PDF with an upper-case extension, and a
\* file that is no PDF
ZipNames ==
    { <<"a", ".", "p", "d", "f">>,
      <<".", "_", "a", ".", "p", "d", "f">>,
      <<"B", ".", "P", "D", "F">>,
      <<"n", ".", "t", "x", "t">> }

\* a file of the archive: its name, and the text extract_text_from_pdf
\* returns when it is called on it
ZipFiles == {[name |-> n, content |-> c] : n \in ZipNames, c \in PaperTexts}

Walks == UNION {[1..n -> ZipFiles] : n \in 0..MaxFiles}

\* papers_data = []; the archive is extracted; text_content is not yet bound
ZipInit ==
    /\ text = <<>>
    /\ seg = NotCalled
    /\ papers = <<>>
    /\ idx = 0
    /\ pc = "walk"
    /\ task_texts = NoTexts
    /\ executing = "none"
    /\ completed = <<>>
    /\ raw_payload = NoPayload
    /\ crew_output = NoOutput
    /\ results = <<>>
    /\ errors = <<>>
    /\ warnings = <<>>
    /\ progress = <<>>
    /\ history = <<>>
    /\ files \in Walks
    /\ visited = 0
    /\ text_content = None
    /\ DashIdle

zipRest == << text, seg, idx, task_texts, executing, completed, raw_payload,
             crew_output, results, errors, warnings, progress, history, files,
             dashVars >>

\* one iteration of "for file in files": the text is extracted for a PDF that
\* is not hidden; a file that is no PDF is passed over; for every PDF name the
\* sections of text_content are appended.  Reading text_content while it is
\* unbound raises UnboundLocalError, which ends process_zip_file.
VisitFile ==
    /\ pc = "walk"
    /\ visited < Len(files)
    /\ LET file == files[visited + 1]
           tc == IF IsPdfName(file.name) /\ ~IsHiddenName(file.name)
                 THEN Some(file.content)
                 ELSE text_content
       IN  /\ text_content' = tc
           /\ IF ~IsPdfName(file.name)
              THEN /\ visited' = visited + 1
                   /\ UNCHANGED << papers, pc >>
              ELSE IF ~tc.some
              THEN /\ pc' = "raised"
                   /\ UNCHANGED << papers, visited >>
              ELSE /\ papers' = Append(papers,
                                       [filename |-> file.name,
                                        sections |-> extract_paper_sections(tc.val)])
                   /\ visited' = visited + 1
                   /\ UNCHANGED pc
    /\ UNCHANGED zipRest

\* the walk is over: return papers_data
WalkReturns ==
    /\ pc = "walk"
    /\ visited = Len(files)
    /\ pc' = "returned"
    /\ UNCHANGED << papers, visited, text_content, zipRest >>

ZipNext ==
    \/ VisitFile
    \/ WalkReturns

SpecZip == ZipInit /\ [][ZipNext]_vars

---------------------------------------------------------------------------
(* Properties of the batch loop, checked under Spec *)

Raised == {i \in 1..Len(history) : history[i].raised}

\* C1: when the pipeline run of exactly one paper raises and every other run
\* yields a validated record, the loop still goes through every paper, the
\* results are the other papers' records in input order, and exactly one
\* failure is reported, under the failing paper's filename.
C1_BatchIsolation ==
    ( /\ pc = "done"
      /\ Cardinality(Raised) = 1
      /\ \A i \in 1..Len(history) : i \in Raised \/ history[i].ok )
    =>
    LET failed == CHOOSE i \in Raised : TRUE
    IN  /\ Len(history) = Len(papers)
        /\ results = [k \in 1..(Len(papers) - 1) |->
                         [type |-> "PaperAnalysis",
                          rec |-> history[IF k < failed THEN k ELSE k + 1].rec]]
        /\ errors = << papers[failed].filename >>

\* a finished batch of three papers whose second run raised and whose first
\* and third runs gave two different records
C1_Witness ==
    /\ pc = "done"
    /\ Len(papers) = 3
    /\ Raised = {2}
    /\ history[1].ok /\ history[3].ok
    /\ Len(results) = 2
    /\ results[1] # results[2]
    /\ errors = << "b.pdf" >>

\* C2: progress is reported after every paper, whatever its outcome: once k
\* papers are finished the values reported are 1/N, 2/N, ..., k/N.
C2_ProgressAfterEveryPaper ==
    progress = [k \in 1..idx |-> k]

\* C3: a paper whose output carries no validated model adds nothing to the
\* results, and every element of the results is a validated PaperAnalysis.
C3_OnlyValidatedRecords ==
    /\ \A i \in 1..Len(results) : results[i].type = "PaperAnalysis"
    /\ Len(results) = Cardinality({i \in 1..Len(history) : history[i].ok})

---------------------------------------------------------------------------
(* Properties of one pipeline run, checked under SpecCrew *)

\* C4: a payload that lacks one of the declared fields is rejected: whenever
\* the output carries a validated model, the payload held all 17 fields.
C4_MissingFieldRejected ==
    (pc = "returned" /\ crew_output.pydantic.some) =>
        DOMAIN raw_payload = FieldNames

IsScore(v) == v.t = "int" /\ 1 <= v.n /\ v.n <= 10

\* C5: the trust_score of a validated record is null or an integer of 1..10,
\* and a payload whose trust_score is anything else is rejected.
C5_TrustScoreStrict ==
    (pc = "returned" /\ "trust_score" \in DOMAIN raw_payload) =>
        LET given == raw_payload["trust_score"]
            got == crew_output.pydantic.rec["trust_score"]
        IN  /\ crew_output.pydantic.some => (got = Null \/ IsScore(got))
            /\ ~(given = Null \/ IsScore(given)) => ~crew_output.pydantic.some

ChainOrder == << "title", "triage", "methodology", "stats", "synthesis" >>

Completed == {completed[i] : i \in 1..Len(completed)}

\* C6: a task is executed only when every task of its context has completed,
\* and the tasks complete one after another in the chain order.
C6_DependenciesFirst ==
    /\ executing # "none" =>
          /\ TaskContext(executing) \subseteq Completed
          /\ executing \notin Completed
    /\ completed = SubSeq(ChainOrder, 1, Len(completed))

\* the synthesis task executing, after the four tasks of its context
C6_Witness ==
    /\ executing = "synthesis"
    /\ completed = << "title", "triage", "methodology", "stats" >>

\* the sections each task's text is built from
RelevantSections(task) ==
    CASE task = "title" -> {"title"}
      [] task = "triage" -> {"abstract", "funding", "conflicts_of_interest"}
      [] task = "methodology" -> {"methods"}
      [] task = "stats" -> {"methods", "results"}

\* C7: when all the sections relevant to a task are null, the text placed in
\* the task is a non-empty sentinel string.
C7_SentinelWhenNull ==
    pc # "create" =>
        \A task \in {"title", "triage", "methodology", "stats"} :
            (\A k \in RelevantSections(task) : seg[k] = None) =>
                task_texts[task] # <<>>

---------------------------------------------------------------------------
(* Properties of extract_paper_sections, checked under SpecSeg *)

Returned == seg # NotCalled

\* the text the headings are searched in, and the text the slices are cut from
Normalized == ReSubSpaces(text)
Lowered == StrLower(Normalized)

\* variant v stands in s at 0-based offset off
OccursAt(v, s, off) ==
    /\ off + Len(v) <= Len(s)
    /\ SubSeq(s, off + 1, off + Len(v)) = v

\* ... as a whole word: no word character touches it on either side
WholeWordAt(v, s, off) ==
    /\ OccursAt(v, s, off)
    /\ off = 0 \/ ~IsWord(s[off])
    /\ off + Len(v) = Len(s) \/ ~IsWord(s[off + Len(v) + 1])

Variants(section) ==
    {CANONICAL_SECTIONS(section)[j] : j \in 1..Len(CANONICAL_SECTIONS(section))}

\* the offsets of low at which some variant of the section is a whole word
HeadingOffsets(low, section) ==
    {off \in 0..Len(low) : \E v \in Variants(section) : WholeWordAt(v, low, off)}

\* for every section, its heading offsets in the text searched
AllOffsets == LET low == Lowered IN [s \in SectionKeys |-> HeadingOffsets(low, s)]

SetMin(S) == CHOOSE x \in S : \A y \in S : x <= y

\* C8: for a text in which no heading alias occurs as a whole word, the
\* returned mapping has exactly the eight heading sections and the title entry
\* as keys, and every heading section is null.
C8_NoHeadingAllNull ==
    Returned =>
        LET offs == AllOffsets
        IN  (\A s \in SectionKeys : offs[s] = {}) =>
                /\ DOMAIN seg = SectionKeys \cup {"title"}
                /\ \A k \in SectionKeys : seg[k] = None

\* a returned text that holds an alias inside a longer word and no alias as a
\* whole word
C8_Witness ==
    /\ Returned
    /\ LET offs == AllOffsets IN \A s \in SectionKeys : offs[s] = {}
    /\ LET low == Lowered
       IN  \E s \in SectionKeys : \E v \in Variants(s) :
              \E off \in 0..Len(low) : OccursAt(v, low, off)
    /\ \A k \in SectionKeys : seg[k] = None
    /\ seg["title"].some

\* C9: the title is the first 500 characters of the whitespace-normalized
\* text, trimmed; for empty and whitespace-only input the title is null and
\* every section is null.
C9_TitleFromNormalized ==
    Returned =>
        LET t == Strip(Slice(Normalized, 0, TitleChars))
        IN  IF t = <<>>
            THEN /\ seg["title"] = None
                 /\ \A k \in SectionKeys : seg[k] = None
            ELSE seg["title"] = Some(t)

\* C10: first occurrence wins.  A section with a heading match is assigned a
\* slice of the normalized text that begins at the smallest offset at which
\* one of its variants matches and ends no later than the next heading of any
\* section (so a later match of the same section neither replaces nor extends
\* it); a section with no match stays null.
C10_FirstOccurrenceWins ==
    Returned =>
        LET offs == AllOffsets
            all == UNION {offs[s] : s \in SectionKeys}
            norm == Normalized
        IN  \A s \in SectionKeys :
                IF offs[s] = {}
                THEN seg[s] = None
                ELSE LET m == SetMin(offs[s])
                         later == {o \in all : o > m}
                         nxt == IF later = {} THEN Len(norm) ELSE SetMin(later)
                     IN  /\ seg[s].some
                         /\ \E e \in {m, nxt} :
                                seg[s].val = Strip(Slice(norm, m, e))

\* a section matched at two different offsets, whose assigned slice is the one
\* of the first offset and differs from the slice of the later one
C10_Witness ==
    /\ Returned
    /\ LET offs == AllOffsets
           all == UNION {offs[s] : s \in SectionKeys}
           norm == Normalized
       IN  \E s \in SectionKeys :
              /\ Cardinality(offs[s]) >= 2
              /\ LET m == SetMin(offs[s])
                     o2 == SetMin(offs[s] \ {m})
                     later == {o \in all : o > m}
                     later2 == {o \in all : o > o2}
                     n2 == IF later2 = {} THEN Len(norm) ELSE SetMin(later2)
                 IN  /\ seg[s] = Some(Strip(Slice(norm, m, SetMin(later))))
                     /\ seg[s] # Some(Strip(Slice(norm, o2, n2)))

\* the offset in the normalized text of the character that lower() turned into
\* the character at offset off of the lowered text
DocOffset(low, off) ==
    off - Cardinality({i \in 1..off : low[i] = "U+0307"})

\* C11: for a text whose only heading matches are one abstract, one methods
\* and one results heading, in that order and after some leading title text,
\* abstract is the text from the abstract heading up to the methods heading,
\* methods the text from the methods heading up to the results heading,
\* results the text from the results heading to the end of the text, and
\* every other section is null.
C11_AbstractMethodsResults ==
    Returned =>
        LET offs == AllOffsets
            low == Lowered
            norm == Normalized
        IN  \A a \in offs["abstract"], m \in offs["methods"], r \in offs["results"] :
                ( /\ offs["abstract"] = {a}
                  /\ offs["methods"] = {m}
                  /\ offs["results"] = {r}
                  /\ 0 < a /\ a < m /\ m < r
                  /\ \A s \in SectionKeys \ {"abstract", "methods", "results"} :
                        offs[s] = {} )
                => /\ seg["abstract"] =
                        Some(Strip(Slice(norm, DocOffset(low, a), DocOffset(low, m))))
                   /\ seg["methods"] =
                        Some(Strip(Slice(norm, DocOffset(low, m), DocOffset(low, r))))
                   /\ seg["results"] =
                        Some(Strip(Slice(norm, DocOffset(low, r), Len(norm))))
                   /\ \A s \in SectionKeys \ {"abstract", "methods", "results"} :
                        seg[s] = None

\* the advisory of paper i
Advisory(i) == [kind |-> "methods_missing", filename |-> papers[i].filename]

InWarnings(w) == \E k \in 1..Len(warnings) : warnings[k] = w

\* the run of paper i ended with an append to the results
Appended(i) ==
    \/ history[i].ok
    \/ /\ ~history[i].raised
       /\ ~InWarnings([kind |-> "structured_failed", filename |-> papers[i].filename])

\* C12: a paper whose methods section is null gets the advisory and is still
\* run through the pipeline: the advisory is among the warnings as soon as the
\* paper is begun, the paper's run is in the history once the loop has passed
\* it, and when the run gave a validated record that record, unchanged, stands
\* in the results at the paper's place among the appended ones.  A paper with
\* a methods section gets no advisory.
C12_AdvisoryNeverBlocks ==
    \A i \in 1..Len(papers) :
        LET begun == i <= idx \/ (i = idx + 1 /\ pc = "kickoff")
        IN  IF papers[i].sections["methods"] = None
            THEN /\ begun => InWarnings(Advisory(i))
                 /\ i <= idx =>
                       /\ i <= Len(history)
                       /\ history[i].ok =>
                             LET j == Cardinality({k \in 1..i : Appended(k)})
                             IN  /\ j <= Len(results)
                                 /\ results[j] = [type |-> "PaperAnalysis",
                                                  rec |-> history[i].rec]
            ELSE ~InWarnings(Advisory(i))

\* a finished batch whose second paper has no methods section, was given the
\* advisory, and whose record was appended after the record of the first
\* paper, which has a methods section
C12_Witness ==
    /\ pc = "done"
    /\ Len(papers) >= 2
    /\ papers[1].sections["methods"] # None
    /\ papers[2].sections["methods"] = None
    /\ InWarnings(Advisory(2))
    /\ history[1].ok /\ history[2].ok
    /\ results[2] = [type |-> "PaperAnalysis", rec |-> history[2].rec]
    /\ results[1] # results[2]

\* the paper whose run appended the j-th element of the results
Source(j) ==
    CHOOSE i \in 1..Len(history) :
        Appended(i) /\ Cardinality({k \in 1..i : Appended(k)}) = j

\* title is None or blank
BlankTitle(rec) ==
    rec["title"].t = "null" \/ Strip(Chars(rec["title"].s)) = <<>>

\* filename with the extension stripped and title-casing applied
FilenameLabel(name) == StrTitle(StrReplace(Chars(name), <<".", "p", "d", "f">>))

\* C13: in the report, the heading of every record of the batch whose title
\* is null or blank is made from the filename of the input document the record
\* was produced from, extension stripped and title-cased (inside the
\* "Paper n (...)" frame), never a generic label.
C13_HeadingFromInputFilename ==
    (pc = "shown" /\ results # <<>>) =>
        \A j \in 1..Len(results) :
            (results[j].type = "PaperAnalysis" /\ BlankTitle(results[j].rec)) =>
                /\ report[j].kind = "paper"
                /\ report[j].name = FilenameLabel(papers[Source(j)].filename)

\* C16: the dashboard loop raises on no validated record: when it raises, the
\* element it raised on is not a PaperAnalysis.
C16_ValidatedRecordsDisplay ==
    (pc = "shown" /\ display.raised) =>
        results[Len(display.shown) + 1].type # "PaperAnalysis"

\* s begins, case-insensitively, with the whole of variant v
BeginsWith(s, v) ==
    /\ Len(v) <= Len(s)
    /\ StrLower(SubSeq(s, 1, Len(v))) = v

\* C14: every non-null heading section returned is a non-empty string that
\* begins, case-insensitively, with a complete alias of that section.
C14_SectionBeginsWithAlias ==
    Returned =>
        \A s \in SectionKeys :
            seg[s].some =>
                /\ seg[s].val # <<>>
                /\ \E v \in Variants(s) : BeginsWith(seg[s].val, v)

\* the place in the walk of the k-th file with a PDF name
PdfFile(k) ==
    CHOOSE i \in 1..Len(files) :
        /\ IsPdfName(files[i].name)
        /\ Cardinality({j \in 1..i : IsPdfName(files[j].name)}) = k

\* C15: process_zip_file does not fail on an unset text, and every entry it
\* builds holds the sections of the text of the file the entry names, never
\* those of the text of a file visited before; so also for the PDF files whose
\* name begins with "._".
C15_SectionsOfNamedFile ==
    /\ pc # "raised"
    /\ \A k \in 1..Len(papers) :
          /\ papers[k].filename = files[PdfFile(k)].name
          /\ papers[k].sections = extract_paper_sections(files[PdfFile(k)].content)

=============================================================================
